---- MODULE Spec2Model ----
(***************************************************************************)
(* A model of src/pwa/sw.js, the service worker of the Sosyal Hizmet       *)
(* Formu PWA: the cache namespaces and the three fetch strategies, the     *)
(* install/activate lifecycle, the message commands, the periodic cleanup  *)
(* of the data namespace, and the pending-forms queue with its background  *)
(* sync.                                                                   *)
(*                                                                         *)
(* Every handler is an async function: it is cut into one action per       *)
(* await at which the outcome of the awaited operation (a network call, a  *)
(* cache or database request) becomes known; other events interleave       *)
(* between these actions.  A call that is issued and awaited at once with  *)
(* nothing in between (caches.open at the head of a strategy) is part of   *)
(* the action that issues it.                                              *)
(*                                                                         *)
(* Platform objects are modelled by what the platform does with them:      *)
(*  - CacheStorage maps names to Cache objects; caches.open creates a      *)
(*    missing one; caches.delete drops the name, and a Cache object that   *)
(*    a running handler still holds stays usable, detached.                *)
(*  - A promise is always truthy; awaiting a value that is no promise      *)
(*    yields the value itself.                                             *)
(*  - The object store handed out by openDB is either the browser's        *)
(*    IndexedDB, whose requests are IDBRequest objects (no promises, not   *)
(*    iterable), or a store whose requests are promises of their results   *)
(*    (a wrapper or a test double behind the exported functions).          *)
(***************************************************************************)
EXTENDS Integers, Sequences, FiniteSets, TLC

(***************************************************************************)
(* Bounds of the model.                                                    *)
(***************************************************************************)
\* Cache objects alive at once (named ones and detached ones still held).
MaxCacheObjects == 4
\* Clock ticks in one behaviour.
MaxTicks == 2
\* Calls of storeFormOffline in one behaviour.
MaxEnqueues == 2
\* Sync events in one behaviour.
\* CACHE_FORM_DATA commands in one behaviour.
MaxFormCaches == 1
\* Fetch events in one behaviour.
MaxFetches == 2
\* CLEAR_CACHE commands in one behaviour.
MaxClears == 1
\* GET_CACHE_INFO commands in one behaviour.
MaxInfos == 1

(***************************************************************************)
(* Program constants.                                                      *)
(***************************************************************************)
CACHE_NAME == "sh-formu-pwa-v2.0.0"
DATA_CACHE_NAME == "sh-formu-data-v1"
\* A core namespace left by the previously installed version.
OLD_CACHE_NAME == "sh-formu-pwa-v1.0.0"

\* URLs are sequences of tokens, so that String.includes is a computation.
OFFLINE_URL == <<"/", "offline.html">>
CORE_CACHE_FILES ==
  { <<"/">>, <<"/", "index.html">>, <<"/", "manifest.json">>, OFFLINE_URL }
SUBMIT_URL == <<"/", "api", "/", "submit-form">>

\* 7 days, in ms
maxAge == 7 * 24 * 60 * 60 * 1000
\* The clock (Date.now(), in ms) when the worker script is first evaluated.
StartTime == 100 * 1000 * 1000

NoDate == -1
CacheNames == {CACHE_NAME, DATA_CACHE_NAME, OLD_CACHE_NAME}
CacheIds == 1..MaxCacheObjects
NoCache == 0

VARIABLES
  now,        \* Date.now()
  ticks,      \* clock ticks so far
  names,      \* CacheStorage: name -> Cache object id, NoCache when absent
  objs,       \* Cache objects: id -> (key -> response)
  puts,       \* cache.put calls issued and not awaited, not yet written
  sw,         \* lifecycle state of this version's worker
  installSettled, \* how the promise given to install's waitUntil settled
  addAllFailed, \* history: cache.addAll of the install event was rejected
  skipWaitingFlag, \* self.skipWaiting() was called
  oldActive,  \* the previously installed version is the active worker
  oldClients, \* the previous version still controls open clients
  actKeys,    \* activate: the names caches.keys() returned
  inv,        \* the strategy invocation of the fetch event being handled
  fetches,    \* fetch events so far
  clear,      \* CLEAR_CACHE: its position and the names it enumerated
  replies,    \* messages posted on the CLEAR_CACHE reply port
  clean,      \* the pass of cleanupOldCache
  formCaches, \* CACHE_FORM_DATA commands so far
  info,       \* GET_CACHE_INFO: the call of getCacheInfo
  storeKind,  \* what the requests of the object store are: "native", "promised"
  pending,    \* the records of the object store pending-forms
  completed,  \* the records of the object store completed-forms
  enqueues,   \* calls of storeFormOffline so far
  run,        \* the runs of syncFormSubmissions
  notifications, \* how many 'Form Gonderildi' notifications were shown
  logged,     \* the error the last step of the queue logged, "none" if none
  acked       \* history: the ids of the records the endpoint answered with a 2xx

cleanVars == <<clean, formCaches, info>>
workerVars == <<names, objs, puts, sw, installSettled, addAllFailed, skipWaitingFlag, oldActive,
                oldClients, actKeys, inv, fetches, clear, replies, cleanVars>>
queueVars == <<storeKind, pending, completed, enqueues, run, notifications,
               logged, acked>>
vars == <<now, ticks, workerVars, queueVars>>

(***************************************************************************)
(* Responses.                                                              *)
(***************************************************************************)
\* date: the Date header, NoDate when the response has none; captured: the
\* clock when the response came to be (history, no field of the program).
Response(kind, status, url, date, captured) ==
  [kind |-> kind, status |-> status, url |-> url, date |-> date,
   captured |-> captured]

\* What `await cache.match(k)` yields for a missing key, and what an async
\* function returns when it returns that.
Undefined == Response("undefined", 0, <<>>, NoDate, 0)

\* An HTTP date has whole seconds: the Date header of a response made at t,
\* as new Date(header).getTime() reads it.
HttpDate(t) == (t \div 1000) * 1000

\* A test that takes every response the network gave for a success.
OkWhateverStatus(r) == r.status >= 200

\* Response.ok
Ok(r) == r.status >= 200 /\ r.status <= 299

NetOutcomes == {"ok", "http_error", "transport_error"}

\* The response of a network call that did not fail at the transport level;
\* its Date header is the server's clock at the time of the answer.
NetworkResponse(outcome, url) ==
  IF outcome = "ok" THEN Response("network", 200, url, HttpDate(now), now)
                    ELSE Response("network", 500, url, HttpDate(now), now)

(***************************************************************************)
(* CacheStorage and Cache objects.                                         *)
(***************************************************************************)
EmptyCache == [k \in {} |-> Undefined]

\* caches.keys()
Keys(n) == {c \in CacheNames : n[c] # NoCache}

FreeIds(o) == CacheIds \ DOMAIN o
NewId(o) == CHOOSE i \in FreeIds(o) : \A j \in FreeIds(o) : i <= j

\* caches.open(name) can be served: the name exists or an object can be made.
CanOpen(n, o, name) == n[name] # NoCache \/ FreeIds(o) # {}

\* caches.open(name): the id of the Cache object, created when missing.
OpenId(n, o, name) == IF n[name] # NoCache THEN n[name] ELSE NewId(o)
OpenNames(n, o, name) == [n EXCEPT ![name] = OpenId(n, o, name)]
OpenObjs(n, o, name) ==
  IF n[name] # NoCache THEN o ELSE (NewId(o) :> EmptyCache) @@ o

\* cache.match(key) on Cache object id
Match(o, id, key) == IF key \in DOMAIN o[id] THEN o[id][key] ELSE Undefined

\* cache.put(key, response) on Cache object id
Put(o, id, key, r) == [o EXCEPT ![id] = (key :> r) @@ o[id]]

\* cache.delete(key) on Cache object id
DeleteEntry(o, id, key) ==
  [o EXCEPT ![id] = [k \in (DOMAIN o[id]) \ {key} |-> o[id][k]]]

\* caches.delete(name) for every name of a set
DeleteNames(n, dead) == [c \in CacheNames |-> IF c \in dead THEN NoCache ELSE n[c]]

\* A Cache object lives while CacheStorage names it or a handler holds it.
Collect(o, n, held) ==
  [i \in {j \in DOMAIN o : j \in held \/ \E c \in CacheNames : n[c] = j} |-> o[i]]

\* The content of namespace `name`, empty when the namespace does not exist.
Content(name) == IF names[name] = NoCache THEN EmptyCache ELSE objs[names[name]]

(***************************************************************************)
(* Requests and the router.                                                *)
(***************************************************************************)
Request(method, url, destination) ==
  [method |-> method, url |-> url, destination |-> destination]

NoRequest == Request("none", <<>>, "")

\* The fetch events of the model: a navigation, a static asset, an API
\* read, a navigation whose URL carries the form-data marker, a submission.
Requests ==
  { Request("GET", <<"/">>, "document"),
    Request("GET", <<"/", "app.js">>, "script"),
    Request("GET", <<"/", "api", "/", "forms">>, ""),
    Request("GET", <<"/", "form-data", ".html">>, "document"),
    Request("POST", SUBMIT_URL, "") }

\* String.prototype.includes, on token sequences
Includes(s, pat) ==
  \E i \in 1..(Len(s) - Len(pat) + 1) : SubSeq(s, i, i + Len(pat) - 1) = pat

\* A listener that tests the destination before the URL.
RouteDocumentFirst(req) ==
  IF req.method # "GET" THEN "passthrough"
  ELSE IF req.destination = "document" THEN "document"
  ELSE IF Includes(req.url, <<"/", "api", "/">>) \/ Includes(req.url, <<"form-data">>)
    THEN "networkFirst"
  ELSE "cacheFirst"

\* The strategy the fetch listener hands the request to.
Route(req) ==
  IF req.method # "GET" THEN "passthrough"
  ELSE IF Includes(req.url, <<"/", "api", "/">>) \/ Includes(req.url, <<"form-data">>)
    THEN "networkFirst"
  ELSE IF req.destination = "document" THEN "document"
  ELSE "cacheFirst"

StrategyCache(strategy) ==
  IF strategy = "networkFirst" THEN DATA_CACHE_NAME ELSE CACHE_NAME

\* from: the arm that produced the result (network, cache, made up).
Invocation(pc, strategy, req, cache, result, netCalls) ==
  [pc |-> pc, strategy |-> strategy, req |-> req, cache |-> cache,
   result |-> result, netCalls |-> netCalls, from |-> "none"]

IdleInv == Invocation("idle", "none", NoRequest, NoCache, Undefined, 0)

PutCall(cache, key, r) == [cache |-> cache, key |-> key, resp |-> r]

\* The Cache objects the running handlers hold after the step.
HeldNext ==
  {p.cache : p \in puts'}
    \cup (IF inv'.pc \in {"idle", "done"} THEN {} ELSE {inv'.cache})
    \cup (IF clean'.pc \in {"match", "delete"} THEN {clean'.cache} ELSE {})

(***************************************************************************)
(* Lifecycle: install and activate.                                        *)
(***************************************************************************)
\* cache.addAll(CORE_CACHE_FILES): all files are stored, or none is.
AddAll(o, id) ==
  [o EXCEPT ![id] =
     [k \in CORE_CACHE_FILES |-> Response("network", 200, k, HttpDate(now), now)]
       @@ o[id]]

\* How the promise handed to event.waitUntil settles.  The chain ends in
\* .catch(error => console.error(...)), whose callback returns normally.
InstallPromise(cached) == "fulfilled"

\* The browser's rule: the worker is installed when the install promise is
\* fulfilled and is discarded when it is rejected.
AfterInstall(settled) == IF settled = "fulfilled" THEN "installed" ELSE "redundant"

\* The install event.  cached: whether cache.addAll succeeded.
Install(cached) ==
  /\ sw = "parsed"
  /\ CanOpen(names, objs, CACHE_NAME)
  /\ names' = OpenNames(names, objs, CACHE_NAME)
  /\ installSettled' = InstallPromise(cached)
  /\ addAllFailed' = ~cached
  /\ sw' = AfterInstall(installSettled')
  /\ skipWaitingFlag' = cached
  /\ UNCHANGED <<queueVars, cleanVars>>
  /\ UNCHANGED <<now, ticks, puts, oldActive, oldClients, actKeys, inv, fetches,
                 clear, replies>>
  /\ objs' = Collect(IF cached
                       THEN AddAll(OpenObjs(names, objs, CACHE_NAME),
                                   OpenId(names, objs, CACHE_NAME))
                       ELSE OpenObjs(names, objs, CACHE_NAME),
                     names', HeldNext)

\* The message SKIP_WAITING reaches the waiting worker.
MsgSkipWaiting ==
  /\ sw = "installed"
  /\ ~skipWaitingFlag
  /\ skipWaitingFlag' = TRUE
  /\ UNCHANGED <<queueVars, cleanVars>>
  /\ UNCHANGED <<now, ticks, names, objs, puts, sw, installSettled, addAllFailed, oldActive,
                 oldClients, actKeys, inv, fetches, clear, replies>>

\* The last client of the previous version goes away.
ClientsClose ==
  /\ oldActive
  /\ oldClients
  /\ oldClients' = FALSE
  /\ UNCHANGED <<queueVars, cleanVars>>
  /\ UNCHANGED <<now, ticks, names, objs, puts, sw, installSettled, addAllFailed, skipWaitingFlag,
                 oldActive, actKeys, inv, fetches, clear, replies>>

\* The browser activates the installed worker once it need not wait; the
\* activate listener enumerates the namespaces.
Activate ==
  /\ sw = "installed"
  /\ skipWaitingFlag \/ ~oldClients
  /\ sw' = "activating"
  /\ oldActive' = FALSE
  /\ actKeys' = Keys(names)
  /\ UNCHANGED <<queueVars, cleanVars>>
  /\ UNCHANGED <<now, ticks, names, objs, puts, installSettled, addAllFailed, skipWaitingFlag,
                 oldClients, inv, fetches, clear, replies>>

\* An activate listener that spares the current core namespace only.
StaleNamesButCore(keys) == {c \in keys : c # CACHE_NAME}

\* The names the activate listener deletes.
StaleNames(keys) == {c \in keys : c # CACHE_NAME /\ c # DATA_CACHE_NAME}

\* caches.keys() has answered: the stale namespaces are deleted and the
\* clients claimed.
ActivateCleanup ==
  /\ sw = "activating"
  /\ sw' = "activated"
  /\ names' = DeleteNames(names, StaleNames(actKeys))
  /\ actKeys' = {}
  /\ UNCHANGED <<queueVars, cleanVars>>
  /\ UNCHANGED <<now, ticks, puts, installSettled, addAllFailed, skipWaitingFlag, oldActive,
                 oldClients, inv, fetches, clear, replies>>
  /\ objs' = Collect(objs, names', HeldNext)

(***************************************************************************)
(* The fetch event and the three strategies.                               *)
(***************************************************************************)
\* The fetch listener: a request that is not a GET is left to the browser;
\* any other is answered by its strategy, which opens its namespace first.
\* Network-First and Document issue the network call next, Cache-First a
\* cache lookup.
FetchEvent(req) ==
  /\ sw = "activated"
  /\ inv.pc = "idle"
  /\ fetches < MaxFetches
  /\ fetches' = fetches + 1
  /\ IF Route(req) = "passthrough"
       THEN /\ inv' = Invocation("done", "passthrough", req, NoCache, Undefined, 0)
            /\ UNCHANGED <<names, objs>>
       ELSE /\ CanOpen(names, objs, StrategyCache(Route(req)))
            /\ names' = OpenNames(names, objs, StrategyCache(Route(req)))
            /\ inv' = Invocation(IF Route(req) = "cacheFirst" THEN "match" ELSE "fetch",
                                 Route(req), req,
                                 OpenId(names, objs, StrategyCache(Route(req))),
                                 Undefined,
                                 IF Route(req) = "cacheFirst" THEN 0 ELSE 1)
            /\ objs' = OpenObjs(names, objs, StrategyCache(Route(req)))
  /\ UNCHANGED <<queueVars, cleanVars>>
  /\ UNCHANGED <<now, ticks, puts, sw, installSettled, addAllFailed, skipWaitingFlag, oldActive,
                 oldClients, actKeys, clear, replies>>

\* The invocation ends with `result`.
Return(result, from) ==
  [inv EXCEPT !.pc = "done", !.result = result, !.from = from]

\* The invocation goes on to its next await.
Goto(pc) == [inv EXCEPT !.pc = pc]

\* cache.put(request, networkResponse.clone()), issued and not awaited
IssuePut(r) == puts \cup {PutCall(inv.cache, inv.req.url, r)}

\* networkFirstStrategy: the network call has an outcome.
NetworkFirstFetch(outcome) ==
  /\ inv.strategy = "networkFirst"
  /\ inv.pc = "fetch"
  /\ IF outcome = "transport_error"
       THEN /\ inv' = Goto("match")
            /\ puts' = puts
       ELSE /\ inv' = Return(NetworkResponse(outcome, inv.req.url), "network")
            /\ puts' = IF Ok(NetworkResponse(outcome, inv.req.url))
                         THEN IssuePut(NetworkResponse(outcome, inv.req.url))
                         ELSE puts
  /\ UNCHANGED <<queueVars, cleanVars>>
  /\ UNCHANGED <<now, ticks, names, sw, installSettled, addAllFailed, skipWaitingFlag, oldActive,
                 oldClients, actKeys, fetches, clear, replies>>
  /\ objs' = Collect(objs, names', HeldNext)

\* A Network-First that makes up an empty 404 when it has nothing cached.
OfflineErrorEmpty(url) == Response("empty", 404, url, NoDate, now)

\* The response Network-First makes up when it has nothing cached.
OfflineError(url) == Response("offline-json", 503, url, NoDate, now)

\* networkFirstStrategy, in the catch: the cache lookup has answered.
NetworkFirstMatch ==
  /\ inv.strategy = "networkFirst"
  /\ inv.pc = "match"
  /\ inv' = IF Match(objs, inv.cache, inv.req.url) # Undefined
              THEN Return(Match(objs, inv.cache, inv.req.url), "cache")
              ELSE Return(OfflineError(inv.req.url), "made")
  /\ UNCHANGED <<queueVars, cleanVars>>
  /\ UNCHANGED <<now, ticks, names, puts, sw, installSettled, addAllFailed, skipWaitingFlag,
                 oldActive, oldClients, actKeys, fetches, clear, replies>>
  /\ objs' = Collect(objs, names', HeldNext)

\* documentStrategy: the network call has an outcome.  A response that is
\* not ok is thrown away (throw new Error) and handled like a transport
\* failure.
DocumentFetch(outcome) ==
  /\ inv.strategy = "document"
  /\ inv.pc = "fetch"
  /\ IF outcome = "ok"
       THEN /\ inv' = Return(NetworkResponse(outcome, inv.req.url), "network")
            /\ puts' = IssuePut(NetworkResponse(outcome, inv.req.url))
       ELSE /\ inv' = Goto("match")
            /\ puts' = puts
  /\ UNCHANGED <<queueVars, cleanVars>>
  /\ UNCHANGED <<now, ticks, names, sw, installSettled, addAllFailed, skipWaitingFlag, oldActive,
                 oldClients, actKeys, fetches, clear, replies>>
  /\ objs' = Collect(objs, names', HeldNext)

\* documentStrategy, in the catch: the lookup of the request has answered.
DocumentMatch ==
  /\ inv.strategy = "document"
  /\ inv.pc = "match"
  /\ inv' = IF Match(objs, inv.cache, inv.req.url) # Undefined
              THEN Return(Match(objs, inv.cache, inv.req.url), "cache")
              ELSE Goto("matchOffline")
  /\ UNCHANGED <<queueVars, cleanVars>>
  /\ UNCHANGED <<now, ticks, names, puts, sw, installSettled, addAllFailed, skipWaitingFlag,
                 oldActive, oldClients, actKeys, fetches, clear, replies>>
  /\ objs' = Collect(objs, names', HeldNext)

\* The page built from getOfflineHTML()
InlineOfflinePage == Response("inline-offline", 200, OFFLINE_URL, NoDate, now)

\* `cache.match(OFFLINE_URL) || new Response(getOfflineHTML(), ...)`: the
\* left operand is the promise cache.match returns, an object and so
\* truthy, whatever it will resolve to: || yields it and never builds the
\* inline page.  The function resolves to what that promise resolves to.
OfflineFallback(lookup, inline) == lookup

\* documentStrategy: the lookup of OFFLINE_URL has answered.
DocumentMatchOffline ==
  /\ inv.strategy = "document"
  /\ inv.pc = "matchOffline"
  /\ inv' = Return(OfflineFallback(Match(objs, inv.cache, OFFLINE_URL), InlineOfflinePage),
                   "offline")
  /\ UNCHANGED <<queueVars, cleanVars>>
  /\ UNCHANGED <<now, ticks, names, puts, sw, installSettled, addAllFailed, skipWaitingFlag,
                 oldActive, oldClients, actKeys, fetches, clear, replies>>
  /\ objs' = Collect(objs, names', HeldNext)

\* A Cache-First that issues the network call whatever its lookup found.
CacheFirstRevalidate(cached) ==
  [inv EXCEPT !.pc = "fetch", !.netCalls = @ + 1]

\* cacheFirstStrategy after its lookup: a hit is returned; a miss issues the
\* network call.
CacheFirstLookup(cached) ==
  IF cached # Undefined
    THEN Return(cached, "cache")
    ELSE [inv EXCEPT !.pc = "fetch", !.netCalls = @ + 1]

\* cacheFirstStrategy: the cache lookup has answered.
CacheFirstMatch ==
  /\ inv.strategy = "cacheFirst"
  /\ inv.pc = "match"
  /\ inv' = CacheFirstLookup(Match(objs, inv.cache, inv.req.url))
  /\ UNCHANGED <<queueVars, cleanVars>>
  /\ UNCHANGED <<now, ticks, names, puts, sw, installSettled, addAllFailed, skipWaitingFlag,
                 oldActive, oldClients, actKeys, fetches, clear, replies>>
  /\ objs' = Collect(objs, names', HeldNext)

\* A Cache-First that lets the failure of the network call through.
NotFoundRethrown(url) == Undefined

\* The response Cache-First makes up when the network call fails.
NotFound(url) == Response("empty", 404, url, NoDate, now)

\* cacheFirstStrategy: the network call has an outcome.
CacheFirstFetch(outcome) ==
  /\ inv.strategy = "cacheFirst"
  /\ inv.pc = "fetch"
  /\ IF outcome = "transport_error"
       THEN /\ inv' = Return(NotFound(inv.req.url), "made")
            /\ puts' = puts
       ELSE /\ inv' = Return(NetworkResponse(outcome, inv.req.url), "network")
            /\ puts' = IF Ok(NetworkResponse(outcome, inv.req.url))
                         THEN IssuePut(NetworkResponse(outcome, inv.req.url))
                         ELSE puts
  /\ UNCHANGED <<queueVars, cleanVars>>
  /\ UNCHANGED <<now, ticks, names, sw, installSettled, addAllFailed, skipWaitingFlag, oldActive,
                 oldClients, actKeys, fetches, clear, replies>>
  /\ objs' = Collect(objs, names', HeldNext)

\* A cache.put that was not awaited writes its entry.
PutComplete(p) ==
  /\ p \in puts
  /\ puts' = puts \ {p}
  /\ UNCHANGED <<queueVars, cleanVars>>
  /\ UNCHANGED <<now, ticks, names, sw, installSettled, addAllFailed, skipWaitingFlag, oldActive,
                 oldClients, actKeys, inv, fetches, clear, replies>>
  /\ objs' = Collect(Put(objs, p.cache, p.key, p.resp), names', HeldNext)

\* The browser takes the answer of the fetch event.
Respond ==
  /\ inv.pc = "done"
  /\ inv' = IdleInv
  /\ UNCHANGED <<queueVars, cleanVars>>
  /\ UNCHANGED <<now, ticks, names, objs, puts, sw, installSettled, addAllFailed, skipWaitingFlag,
                 oldActive, oldClients, actKeys, fetches, clear, replies>>

(***************************************************************************)
(* The message CLEAR_CACHE.                                                *)
(***************************************************************************)
\* clearAllCaches: caches.keys() is asked for the names.
ClearCacheKeys ==
  /\ sw = "activated"
  /\ clear.pc = "idle"
  /\ clear.sent < MaxClears
  /\ clear' = [pc |-> "delete", keys |-> Keys(names), sent |-> clear.sent + 1]
  /\ UNCHANGED <<queueVars, cleanVars>>
  /\ UNCHANGED <<now, ticks, names, objs, puts, sw, installSettled, addAllFailed, skipWaitingFlag,
                 oldActive, oldClients, actKeys, inv, fetches, replies>>

\* clearAllCaches: the deletions have settled.  When they succeeded the
\* .then callback posts {success: true}; when one failed the error is
\* thrown again and nothing is chained to handle it.
ClearCacheDelete(deleted) ==
  /\ clear.pc = "delete"
  /\ clear' = [clear EXCEPT !.pc = "idle", !.keys = {}]
  /\ names' = IF deleted THEN DeleteNames(names, clear.keys) ELSE names
  /\ replies' = IF deleted THEN replies + 1 ELSE replies
  /\ UNCHANGED <<queueVars, cleanVars>>
  /\ UNCHANGED <<now, ticks, puts, sw, installSettled, addAllFailed, skipWaitingFlag, oldActive,
                 oldClients, actKeys, inv, fetches>>
  /\ objs' = Collect(objs, names', HeldNext)

(***************************************************************************)
(* The message GET_CACHE_INFO.                                             *)
(***************************************************************************)
\* A call of getCacheInfo: where it is, the names of cacheNames its loop
\* has not reached yet, info.totalCaches, the length of info.caches, and
\* the commands so far.
CacheInfo(pc, todo, totalCaches, listed, sent) ==
  [pc |-> pc, todo |-> todo, totalCaches |-> totalCaches, listed |-> listed,
   sent |-> sent]

IdleInfo == CacheInfo("idle", {}, 0, 0, 0)

\* The message listener is there from the evaluation of the script on; a
\* client reaches the worker once the registration shows it.
Reachable == sw \in {"installed", "activating", "activated"}

\* getCacheInfo: caches.keys() has answered and totalCaches is set.
GetCacheInfoKeys ==
  /\ Reachable
  /\ info.pc \in {"idle", "done", "failed"}
  /\ info.sent < MaxInfos
  /\ info' = CacheInfo(IF Keys(names) = {} THEN "done" ELSE "open", Keys(names),
                       Cardinality(Keys(names)), 0, info.sent + 1)
  /\ UNCHANGED <<queueVars, now, ticks, names, objs, puts, sw, installSettled, addAllFailed,
                 skipWaitingFlag, oldActive, oldClients, actKeys, inv, fetches, clear,
                 replies, clean, formCaches>>

\* The call after the body of its loop ran for one name; after the last
\* name info is returned and posted on the port.
AfterListed(call, cacheName) ==
  [call EXCEPT !.pc = IF call.todo = {cacheName} THEN "done" ELSE "open",
               !.todo = @ \ {cacheName},
               !.listed = @ + 1]

\* getCacheInfo, the body of the loop for one name: caches.open(cacheName),
\* which makes the namespace when there is none of that name, cache.keys(),
\* info.caches.push.  opened: whether the storage answered; a failure
\* is caught and {error} returned.
GetCacheInfoOpen(cacheName, opened) ==
  /\ info.pc = "open"
  /\ cacheName \in info.todo
  /\ opened => CanOpen(names, objs, cacheName)
  /\ info' = IF opened THEN AfterListed(info, cacheName)
                       ELSE [info EXCEPT !.pc = "failed", !.todo = {}]
  /\ names' = IF opened THEN OpenNames(names, objs, cacheName) ELSE names
  /\ UNCHANGED <<queueVars, now, ticks, puts, sw, installSettled, addAllFailed,
                 skipWaitingFlag, oldActive, oldClients, actKeys, inv, fetches, clear,
                 replies, clean, formCaches>>
  /\ objs' = Collect(IF opened THEN OpenObjs(names, objs, cacheName) ELSE objs,
                     names', HeldNext)

(***************************************************************************)
(* The message CACHE_FORM_DATA and the periodic cleanup.                   *)
(***************************************************************************)
\* `form-${Date.now()}-${Math.random().toString(36).substr(2, 9)}`, as the
\* URL the cache makes of it
FormKey(ms, suffix) == <<"/", "form-", ToString(ms), "-", suffix>>

\* new Response(JSON.stringify(formData)): a response built in the worker
\* has the headers it is given, and is given none but the content type.
FormResponse(key) == Response("form-data", 200, key, NoDate, now)

\* cacheFormData(payload).  written: whether cache.put succeeded; a
\* failure is caught and logged.
MsgCacheFormData(suffix, written) ==
  /\ sw = "activated"
  /\ formCaches < MaxFormCaches
  /\ formCaches' = formCaches + 1
  /\ CanOpen(names, objs, DATA_CACHE_NAME)
  /\ names' = OpenNames(names, objs, DATA_CACHE_NAME)
  /\ UNCHANGED <<queueVars, now, ticks, puts, sw, installSettled, addAllFailed, skipWaitingFlag,
                 oldActive, oldClients, actKeys, inv, fetches, clear, replies, clean, info>>
  /\ objs' = Collect(IF written
                       THEN Put(OpenObjs(names, objs, DATA_CACHE_NAME),
                                OpenId(names, objs, DATA_CACHE_NAME),
                                FormKey(now, suffix), FormResponse(FormKey(now, suffix)))
                       ELSE OpenObjs(names, objs, DATA_CACHE_NAME),
                     names', HeldNext)

PeriodicTags == {"cleanup-cache", "other-tag"}

\* A pass: where it is, the Cache object it scans, the keys cache.keys()
\* returned, the index of its key, and its `now`.  `removed` is history:
\* the entries the pass has deleted so far.
Pass(pc, cache, requests, i, at, removed) ==
  [pc |-> pc, cache |-> cache, requests |-> requests, i |-> i, at |-> at,
   removed |-> removed]

IdlePass == Pass("idle", NoCache, <<>>, 0, 0, {})

\* The orders in which cache.keys() can list the keys of a Cache object.
KeyOrders(keys) ==
  {order \in [1..Cardinality(keys) -> keys] :
     \A i, j \in 1..Cardinality(keys) : order[i] = order[j] => i = j}

\* The periodicsync event: for the tag 'cleanup-cache' a pass opens the data
\* namespace, lists its keys and reads the clock.
CleanupStart(tag, order) ==
  /\ sw = "activated"
  /\ clean.pc \in {"idle", "done", "aborted"}
  /\ tag = "cleanup-cache"
  /\ CanOpen(names, objs, DATA_CACHE_NAME)
  /\ order \in KeyOrders(DOMAIN Content(DATA_CACHE_NAME))
  /\ names' = OpenNames(names, objs, DATA_CACHE_NAME)
  /\ clean' = IF order = <<>>
                THEN Pass("done", OpenId(names, objs, DATA_CACHE_NAME), <<>>, 0, now, {})
                ELSE Pass("match", OpenId(names, objs, DATA_CACHE_NAME), order, 1, now, {})
  /\ UNCHANGED <<queueVars, now, ticks, puts, sw, installSettled, addAllFailed, skipWaitingFlag,
                 oldActive, oldClients, actKeys, inv, fetches, clear, replies,
                 formCaches, info>>
  /\ objs' = Collect(OpenObjs(names, objs, DATA_CACHE_NAME), names', HeldNext)

\* The pass goes on to its next key, or is done.
NextRequest(ps) ==
  IF ps.i < Len(ps.requests) THEN [ps EXCEPT !.pc = "match", !.i = @ + 1]
                             ELSE Pass("done", ps.cache, <<>>, 0, ps.at, ps.removed)

\* `if (dateHeader) { ... if (now - cacheDate > maxAge)`: whether the pass
\* deletes the entry it has read.
Expired(response, at) == response.date # NoDate /\ at - response.date > maxAge

\* The pass after cache.match answered for its key.  Reading
\* response.headers of a missing entry is a TypeError, which the one catch
\* around the loop takes: the pass is over.
AfterMatch(ps, response) ==
  IF response = Undefined THEN Pass("aborted", ps.cache, <<>>, 0, ps.at, ps.removed)
  ELSE IF Expired(response, ps.at) THEN [ps EXCEPT !.pc = "delete"]
  ELSE NextRequest(ps)

\* cleanupOldCache: cache.match of the current key has answered.
CleanupMatch ==
  /\ clean.pc = "match"
  /\ clean' = AfterMatch(clean, Match(objs, clean.cache, clean.requests[clean.i]))
  /\ UNCHANGED <<queueVars, now, ticks, names, puts, sw, installSettled,
                 addAllFailed, skipWaitingFlag, oldActive, oldClients, actKeys, inv, fetches, clear,
                 replies, formCaches, info>>
  /\ objs' = Collect(objs, names', HeldNext)

\* cleanupOldCache: cache.delete of the current key has settled.  A failure
\* of the storage ends the pass in the catch.
CleanupDelete(written) ==
  /\ clean.pc = "delete"
  /\ clean' = IF written
                THEN NextRequest([clean EXCEPT !.removed = @ \cup
                       ({Match(objs, clean.cache, clean.requests[clean.i])} \ {Undefined})])
                ELSE Pass("aborted", clean.cache, <<>>, 0, clean.at, clean.removed)
  /\ UNCHANGED <<queueVars, now, ticks, names, puts, sw, installSettled,
                 addAllFailed, skipWaitingFlag, oldActive, oldClients, actKeys, inv, fetches, clear,
                 replies, formCaches, info>>
  /\ objs' = Collect(IF written
                       THEN DeleteEntry(objs, clean.cache, clean.requests[clean.i])
                       ELSE objs,
                     names', HeldNext)

(***************************************************************************)
(* The clock.                                                              *)
(***************************************************************************)
\* Date.now() moves on by d ms.
Tick(d) ==
  /\ ticks < MaxTicks
  /\ ticks' = ticks + 1
  /\ now' = now + d
  /\ UNCHANGED <<workerVars, queueVars>>

\* The queue reads the clock in storeFormOffline only: what matters to it is
\* whether a millisecond has passed since the call before.
QueueTick ==
  /\ enqueues < MaxEnqueues
  /\ ticks <= enqueues
  /\ ticks' = ticks + 1
  /\ now' = now + 1
  /\ logged' = "none"
  /\ UNCHANGED <<workerVars, storeKind, pending, completed, enqueues, run,
                 notifications, acked>>

(***************************************************************************)
(* The object stores of SHFormDB and storeFormOffline.                     *)
(***************************************************************************)
\* The payload of the next call: the queue never looks into a payload, so
\* each call brings its own.
NextForm == <<"form", enqueues + 1>>

\* What Math.random().toString(36).substr(2, 9) can yield.
Suffixes == {"a", "b"}

\* The characters of a suffix by rank: the digits 0-9, then the letters.
Ranks(suffix) == IF suffix = "a" THEN <<10>> ELSE <<11>>

\* `form-${Date.now()}-${Math.random().toString(36).substr(2, 9)}`
FormId(ms, suffix) == [ms |-> ms, suffix |-> suffix]

RECURSIVE Digits(_)
\* The decimal digits of n, as template literals print a number.
Digits(n) == IF n < 10 THEN <<n>> ELSE Digits(n \div 10) \o <<n % 10>>

\* The characters of an id after "form-", by rank: '-' sorts before the
\* digits, the digits before the letters.
IdString(id) == Digits(id.ms) \o <<-1>> \o Ranks(id.suffix)

\* String order, the order of the keys of an object store.
StringLess(a, b) ==
  \/ Len(a) < Len(b) /\ SubSeq(b, 1, Len(a)) = a
  \/ \E i \in 1..Len(a) :
       /\ i <= Len(b)
       /\ SubSeq(a, 1, i - 1) = SubSeq(b, 1, i - 1)
       /\ a[i] < b[i]

FormRecord(id, data, timestamp) ==
  [id |-> id, data |-> data, timestamp |-> timestamp, status |-> "pending"]

StoreKeys(store) == {rec.id : rec \in store}

\* store.add(rec): a record whose key is in the store already is refused
\* (ConstraintError) and the store is left as it is.
Add(store, rec) == IF rec.id \in StoreKeys(store) THEN store ELSE store \cup {rec}

\* store.delete(id): deleting a key that is not in the store succeeds.
Delete(store, id) == {rec \in store : rec.id # id}

\* A store whose delete raises an error for a key it does not hold.
DeleteErrorAbsent(store, id) ==
  IF id \in StoreKeys(store) THEN "none" ELSE "NotFoundError"

\* The error store.delete(id) raises apart from a failure of the storage.
DeleteError(store, id) == "none"

RECURSIVE InKeyOrder(_)
\* store.getAll(): the records in the order of their keys.
InKeyOrder(store) ==
  IF store = {} THEN <<>>
  ELSE LET first == CHOOSE rec \in store :
                      \A other \in store \ {rec} :
                        StringLess(IdString(rec.id), IdString(other.id))
       IN  <<first>> \o InKeyOrder(store \ {first})

\* The record storeFormOffline builds.
NewRecord(data, suffix) == FormRecord(FormId(now, suffix), data, now)

\* What `await store.add(rec)` throws when the key is in the store: the
\* ConstraintError when the request is a promise; nothing when it is an
\* IDBRequest, whose error is an event nobody listens to.
AwaitAdd(kind, store, rec) ==
  IF rec.id \in StoreKeys(store) /\ kind = "promised" THEN "ConstraintError" ELSE "none"

\* storeFormOffline(data).  opened: whether openDB succeeded.  The record
\* is added in one readwrite transaction; an error is logged and thrown on.
StoreFormOffline(data, suffix, opened) ==
  /\ enqueues < MaxEnqueues
  /\ enqueues' = enqueues + 1
  /\ pending' = IF opened THEN Add(pending, NewRecord(data, suffix)) ELSE pending
  /\ logged' = IF opened THEN AwaitAdd(storeKind, pending, NewRecord(data, suffix))
                         ELSE "open"
  /\ UNCHANGED <<now, ticks, workerVars, storeKind, completed, run, notifications, acked>>

(***************************************************************************)
(* Background sync: syncFormSubmissions.                                   *)
(***************************************************************************)
\* Two runs can overlap; the slots are interchangeable.
Runs == {1, 2}
SyncTags == {"form-submission", "other-tag"}

\* A run: where it is, the list getAll gave it, the index of its record.
SyncRun(pc, snap, i) == [pc |-> pc, snap |-> snap, i |-> i]

IdleRun == SyncRun("idle", <<>>, 0)

\* The sync event: a run starts for the tag 'form-submission' and opens
\* the database.  (A new run takes the first slot that is free.)
SyncEvent(r, tag) ==
  /\ run[r].pc = "idle"
  /\ \A q \in Runs : q < r => run[q].pc # "idle"
  /\ tag = "form-submission"
  /\ run' = [run EXCEPT ![r] = SyncRun("read", <<>>, 0)]
  /\ logged' = "none"
  /\ UNCHANGED <<now, ticks, workerVars, storeKind, pending, completed,
                 enqueues, notifications, acked>>

\* What `await store.getAll()` yields: the records when the request is a
\* promise of them; the request object itself, which is no array and not
\* iterable, when it is an IDBRequest.
AwaitGetAll(kind, store) ==
  IF kind = "promised" THEN [iterable |-> TRUE, items |-> InKeyOrder(store)]
                       ELSE [iterable |-> FALSE, items |-> <<>>]

\* The run after its first lines: openDB failing, or for...of over what is
\* not iterable (TypeError), ends it in the outer catch; an empty list ends
\* it at once; otherwise the first record is posted.
AfterRead(opened, got) ==
  IF ~opened \/ ~got.iterable \/ got.items = <<>> THEN IdleRun
  ELSE SyncRun("deliver", got.items, 1)

\* The error the outer catch logs.
ReadError(opened, got) ==
  IF ~opened THEN "open" ELSE IF ~got.iterable THEN "TypeError" ELSE "none"

\* syncFormSubmissions: the database is open (or not) and getAll awaited.
SyncRead(r, opened) ==
  /\ run[r].pc = "read"
  /\ run' = [run EXCEPT ![r] = AfterRead(opened, AwaitGetAll(storeKind, pending))]
  /\ logged' = ReadError(opened, AwaitGetAll(storeKind, pending))
  /\ UNCHANGED <<now, ticks, workerVars, storeKind, pending, completed,
                 enqueues, notifications, acked>>

\* The run goes on to the next record of its list, or ends.
NextEntry(rn) ==
  IF rn.i < Len(rn.snap) THEN [rn EXCEPT !.pc = "deliver", !.i = @ + 1] ELSE IdleRun

\* A run that deletes the record after any response, ok or not.
AfterDeliverAnyStatus(rn, outcome) ==
  IF outcome # "transport_error" THEN [rn EXCEPT !.pc = "delete"] ELSE NextEntry(rn)

\* The run after the POST of its record has an outcome: a 2xx goes on to
\* delete the record; another status skips it; a transport error is caught
\* by the inner catch.
AfterDeliver(rn, outcome) ==
  IF outcome = "ok" THEN [rn EXCEPT !.pc = "delete"] ELSE NextEntry(rn)

\* syncFormSubmissions: the POST of the current record has an outcome.
SyncDeliver(r, outcome) ==
  /\ run[r].pc = "deliver"
  /\ run' = [run EXCEPT ![r] = AfterDeliver(run[r], outcome)]
  /\ logged' = IF outcome = "transport_error" THEN "fetch" ELSE "none"
  /\ acked' = IF outcome = "ok" THEN acked \cup {run[r].snap[run[r].i].id} ELSE acked
  /\ UNCHANGED <<now, ticks, workerVars, storeKind, pending, completed,
                 enqueues, notifications>>

\* The error the delete of the current record ends with, "none" when it
\* succeeds.  written: whether the storage carried the transaction out.
DeleteOutcome(store, id, written) ==
  IF ~written THEN "storage" ELSE DeleteError(store, id)

\* syncFormSubmissions: the delete of the current record has settled.  On
\* success the notification is shown; an error is caught by the inner
\* catch and logged.
SyncDelete(r, written) ==
  /\ run[r].pc = "delete"
  /\ logged' = DeleteOutcome(pending, run[r].snap[run[r].i].id, written)
  /\ pending' = IF logged' = "none"
                  THEN Delete(pending, run[r].snap[run[r].i].id)
                  ELSE pending
  /\ notifications' = IF logged' = "none" THEN notifications + 1 ELSE notifications
  /\ run' = [run EXCEPT ![r] = NextEntry(run[r])]
  /\ UNCHANGED <<now, ticks, workerVars, storeKind, completed, enqueues,
                 acked>>

(***************************************************************************)
(* Init: the script of this version has been evaluated; the previous       *)
(* version is active and has left its core namespace and a data namespace  *)
(* holding one API response.                                               *)
(***************************************************************************)
OldCore ==
  [k \in CORE_CACHE_FILES |-> Response("network", 200, k, HttpDate(StartTime), StartTime)]
OldData ==
  [k \in {<<"/", "api", "/", "forms">>} |->
     Response("network", 200, k, HttpDate(StartTime), StartTime)]

InitWorker ==
  /\ now = StartTime
  /\ ticks = 0
  /\ names = [c \in CacheNames |->
                IF c = OLD_CACHE_NAME THEN 1 ELSE IF c = DATA_CACHE_NAME THEN 2 ELSE NoCache]
  /\ objs = (1 :> OldCore) @@ (2 :> OldData)
  /\ puts = {}
  /\ sw = "parsed"
  /\ installSettled = "none"
  /\ addAllFailed = FALSE
  /\ skipWaitingFlag = FALSE
  /\ oldActive = TRUE
  /\ oldClients = TRUE
  /\ actKeys = {}
  /\ inv = IdleInv
  /\ fetches = 0
  /\ clear = [pc |-> "idle", keys |-> {}, sent |-> 0]
  /\ replies = 0
  /\ clean = IdlePass
  /\ formCaches = 0
  /\ info = IdleInfo
  /\ pending = {}
  /\ completed = {}
  /\ enqueues = 0
  /\ run = [r \in Runs |-> IdleRun]
  /\ notifications = 0
  /\ logged = "none"
  /\ acked = {}

\* The worker runs in a browser, whose IndexedDB hands out IDBRequests.
Init == InitWorker /\ storeKind = "native"

\* The exported queue functions run against either kind of store.
InitQueue == InitWorker /\ storeKind \in {"native", "promised"}

(***************************************************************************)
(* The worker serving requests: lifecycle, fetch events, CLEAR_CACHE.      *)
(***************************************************************************)
Next ==
  \/ \E cached \in BOOLEAN : Install(cached)
  \/ MsgSkipWaiting
  \/ ClientsClose
  \/ Activate
  \/ ActivateCleanup
  \/ \E req \in Requests : FetchEvent(req)
  \/ \E outcome \in NetOutcomes : NetworkFirstFetch(outcome)
  \/ NetworkFirstMatch
  \/ \E outcome \in NetOutcomes : DocumentFetch(outcome)
  \/ DocumentMatch
  \/ DocumentMatchOffline
  \/ CacheFirstMatch
  \/ \E outcome \in NetOutcomes : CacheFirstFetch(outcome)
  \/ \E p \in puts : PutComplete(p)
  \/ Respond
  \/ ClearCacheKeys
  \/ \E deleted \in BOOLEAN : ClearCacheDelete(deleted)

Spec == Init /\ [][Next]_vars

(***************************************************************************)
(* The queue: storeFormOffline and the sync runs.                          *)
(***************************************************************************)
NextQueue ==
  \/ QueueTick
  \/ \E suffix \in Suffixes, opened \in BOOLEAN :
       StoreFormOffline(NextForm, suffix, opened)
  \/ \E r \in Runs, tag \in SyncTags : SyncEvent(r, tag)
  \/ \E r \in Runs, opened \in BOOLEAN : SyncRead(r, opened)
  \/ \E r \in Runs, outcome \in NetOutcomes : SyncDeliver(r, outcome)
  \/ \E r \in Runs, written \in BOOLEAN : SyncDelete(r, written)

SpecQueue == InitQueue /\ [][NextQueue]_vars

(***************************************************************************)
(* The data namespace: what fills it, the clock, and the cleanup.          *)
(***************************************************************************)
\* The steps of the clock that matter to a window of 7 days.
TickSteps == {1000, 6 * 24 * 60 * 60 * 1000, maxAge}

\* No handler is between two of its awaits.
Quiet == inv.pc = "idle" /\ puts = {} /\ clean.pc \notin {"match", "delete"}

\* The requests that fill the data namespace.
ApiRequests == {q \in Requests : Route(q) = "networkFirst" /\ q.destination = ""}

\* The worker is installed and activated; then API responses and form data
\* fill the data namespace, time passes (between handlers: within one, only
\* the `now` the pass has read counts), and cleanup passes run.
NextCleanup ==
  \/ Install(TRUE)
  \/ Activate
  \/ ActivateCleanup
  \/ \E d \in TickSteps : Quiet /\ Tick(d)
  \/ \E req \in ApiRequests : FetchEvent(req)
  \/ \E outcome \in NetOutcomes : NetworkFirstFetch(outcome)
  \/ NetworkFirstMatch
  \/ \E p \in puts : PutComplete(p)
  \/ Respond
  \/ \E suffix \in Suffixes, written \in BOOLEAN : MsgCacheFormData(suffix, written)
  \/ \E tag \in PeriodicTags, order \in KeyOrders(DOMAIN Content(DATA_CACHE_NAME)) :
       CleanupStart(tag, order)
  \/ CleanupMatch
  \/ \E written \in BOOLEAN : CleanupDelete(written)

SpecCleanup == Init /\ [][NextCleanup]_vars

(***************************************************************************)
(* GET_CACHE_INFO next to what deletes namespaces: activate, CLEAR_CACHE.  *)
(***************************************************************************)
NextInfo ==
  \/ \E cached \in BOOLEAN : Install(cached)
  \/ MsgSkipWaiting
  \/ ClientsClose
  \/ Activate
  \/ ActivateCleanup
  \/ ClearCacheKeys
  \/ \E deleted \in BOOLEAN : ClearCacheDelete(deleted)
  \/ GetCacheInfoKeys
  \/ \E cacheName \in CacheNames, opened \in BOOLEAN : GetCacheInfoOpen(cacheName, opened)

SpecInfo == Init /\ [][NextInfo]_vars

(***************************************************************************)
(* Properties of the strategies and of the lifecycle, checked under Spec.  *)
(***************************************************************************)
\* C1: every navigation request handled by documentStrategy is answered with
\* a renderable response: the live response, the cached copy of the request,
\* the cached offline document, or the inline offline page -- whatever the
\* network did and whatever the core namespace holds.
C1_NavigationAlwaysRenderable ==
  (inv.strategy = "document" /\ inv.pc = "done") => inv.result # Undefined

\* C8: when cache.addAll of the install event fails, the promise given to
\* waitUntil is rejected, the worker is never installed or activated, and
\* the previous version stays the active one.
C8_FailedInstallAborts ==
  addAllFailed =>
    /\ installSettled \in {"none", "rejected"}
    /\ sw \notin {"installed", "activating", "activated"}
    /\ oldActive

\* C9: when the core namespace holds an entry for the request, Cache-First
\* returns that entry and makes no network call, in every state of the
\* cache.
C9_CacheHitNoNetwork ==
  [][(inv.strategy = "cacheFirst" /\ inv.pc = "match" /\ inv' # inv
        /\ Match(objs, inv.cache, inv.req.url) # Undefined)
       => /\ inv'.pc = "done"
          /\ inv'.result = Match(objs, inv.cache, inv.req.url)
          /\ inv'.netCalls = 0]_vars

\* Cache-First has answered a request from the cache.
C9_Witness ==
  /\ inv.strategy = "cacheFirst"
  /\ inv.pc = "done"
  /\ inv.from = "cache"
  /\ inv.result = Match(objs, inv.cache, inv.req.url)

(***************************************************************************)
(* The queue under fair scheduling: sync events keep coming, the database  *)
(* opens, the endpoint answers a POST with a 2xx and the storage carries a *)
(* delete out, each again and again.                                       *)
(***************************************************************************)
SpecQueueFair ==
  /\ InitQueue
  /\ [][NextQueue]_vars
  /\ \A r \in Runs :
       /\ WF_vars(SyncEvent(r, "form-submission"))
       /\ SF_vars(SyncRead(r, TRUE))
       /\ SF_vars(SyncDeliver(r, "ok"))
       /\ SF_vars(SyncDelete(r, TRUE))

C4_RunAttemptsEveryEntry ==
  [][\A r \in Runs :
       /\ (run[r].pc = "read" /\ run'[r] # run[r] /\ logged' # "open") =>
            /\ run'[r] = IF pending = {} THEN IdleRun
                                         ELSE SyncRun("deliver", InKeyOrder(pending), 1)
            /\ \A i, j \in 1..Len(run'[r].snap) :
                 i < j => run'[r].snap[i].timestamp <= run'[r].snap[j].timestamp
       /\ (run[r].pc = "deliver" /\ run'[r] # run[r]) =>
            \/ run'[r] = [run[r] EXCEPT !.pc = "delete"]
            \/ run'[r] = NextEntry(run[r]) /\ pending' = pending
       /\ (run[r].pc = "delete" /\ run'[r] # run[r]) =>
            /\ run'[r] = NextEntry(run[r])
            /\ logged' # "none" => pending' = pending]_vars

\* C5: under fair scheduling every record of the pending store is
\* eventually removed from it.
C5_EventuallyDrained ==
  \A ms \in StartTime..(StartTime + MaxEnqueues) : \A suffix \in Suffixes :
    (FormId(ms, suffix) \in StoreKeys(pending))
      ~> (FormId(ms, suffix) \notin StoreKeys(pending))

C7_EnqueueAddsOneRecord ==
  [][(enqueues' = enqueues + 1 /\ logged' # "open") =>
       \E rec \in pending' :
         /\ pending' = pending \cup {rec}
         /\ rec \notin pending
         /\ rec.id \notin StoreKeys(pending) \cup acked
         /\ rec.data = NextForm
         /\ rec.status = "pending"]_vars

(***************************************************************************)
(* Properties of the cleanup pass, checked under SpecCleanup.              *)
(***************************************************************************)
\* C10: a cleanup pass that ran to its end has deleted every entry of the
\* data namespace that was written more than seven days before the pass
\* read the clock, whichever operation wrote it, and has deleted no entry
\* written less than seven days before.
C10_CleanupEvictsByAge ==
  clean.pc = "done" =>
    /\ \A k \in DOMAIN Content(DATA_CACHE_NAME) :
         clean.at - Content(DATA_CACHE_NAME)[k].captured <= maxAge
    /\ \A response \in clean.removed : clean.at - response.captured > maxAge

\* C11: a failure while a cleanup pass handles one key -- its lookup finds
\* nothing, or its read or delete fails -- does not end the pass: the pass
\* goes on to every later key of its list, deletes the expired ones, and
\* ends only after the last key.
C11_CleanupSkipsFailedEntry ==
  [][(clean.pc \in {"match", "delete"} /\ clean' # clean) =>
       /\ clean'.pc \in {"done", "aborted"} => clean.i = Len(clean.requests)
       /\ (clean'.pc = "match" /\ clean.pc = "match") =>
            ~Expired(Match(objs, clean.cache, clean.requests[clean.i]), clean.at)]_vars

\* C12: when the activate listener has done its work, no namespace is left
\* but the current core namespace and the data namespace, and these two, if
\* they existed, are the same Cache objects with the same entries as before.
C12_ActivateDeletesStale ==
  [][(sw = "activating" /\ sw' = "activated") =>
       /\ Keys(names') \subseteq {CACHE_NAME, DATA_CACHE_NAME}
       /\ \A c \in {CACHE_NAME, DATA_CACHE_NAME} \cap Keys(names) :
            /\ names'[c] = names[c]
            /\ objs'[names'[c]] = objs[names[c]]]_vars

\* The worker is activated: the namespace of the previous version is gone,
\* the core namespace holds the core files and the data namespace what the
\* previous version left in it.
C12_Witness ==
  /\ sw = "activated"
  /\ Keys(names) = {CACHE_NAME, DATA_CACHE_NAME}
  /\ Content(DATA_CACHE_NAME) = OldData
  /\ DOMAIN Content(CACHE_NAME) = CORE_CACHE_FILES

\* C13: a Network-First request whose network call failed in transport is
\* answered with the entry its Cache object holds for the request, and,
\* there being none, with a made-up response of status 503 and a JSON body
\* {error, message}; the error is not passed on, and the pending store is
\* not written.
C13_NetworkFirstTransportFailure ==
  [][(inv.strategy = "networkFirst" /\ inv.pc = "match" /\ inv' # inv) =>
       /\ inv'.pc = "done"
       /\ inv'.result =
            IF Match(objs, inv.cache, inv.req.url) # Undefined
              THEN Match(objs, inv.cache, inv.req.url)
              ELSE Response("offline-json", 503, inv.req.url, NoDate, now)
       /\ inv'.result # Undefined
       /\ pending' = pending
       /\ completed' = completed]_vars

\* Network-First has answered a request, whose network call failed, from
\* the data namespace.
C13_Witness ==
  /\ inv.strategy = "networkFirst"
  /\ inv.pc = "done"
  /\ inv.from = "cache"
  /\ inv.netCalls = 1
  /\ inv.req.url \in DOMAIN Content(DATA_CACHE_NAME)
  /\ inv.result = Content(DATA_CACHE_NAME)[inv.req.url]

\* C14: a Cache-First request that missed the cache: a 2xx from the network
\* is handed to cache.put under the key of the request, written under that
\* key, and returned; a transport failure is answered with an empty
\* response of status 404, is not passed on, and writes nothing.
C14_CacheFirstMiss ==
  [][/\ (inv.strategy = "cacheFirst" /\ inv.pc = "fetch" /\ inv' # inv) =>
          /\ inv'.pc = "done"
          /\ inv'.result # Undefined
          /\ \/ /\ inv'.from = "network"
                /\ Ok(inv'.result)
                /\ inv'.result.url = inv.req.url
                /\ puts' = puts \cup {PutCall(inv.cache, inv.req.url, inv'.result)}
             \/ /\ inv'.from = "network"
                /\ ~Ok(inv'.result)
                /\ puts' = puts
             \/ /\ inv'.from = "made"
                /\ inv'.result = Response("empty", 404, inv.req.url, NoDate, now)
                /\ puts' = puts
                /\ \A id \in DOMAIN objs' : objs'[id] = objs[id]
     /\ \A p \in puts \ puts' :
          p.cache \in DOMAIN objs' => Match(objs', p.cache, p.key) = p.resp]_vars

\* Cache-First has fetched a file it did not hold, and the file is in the
\* core namespace now.
C14_Witness ==
  /\ inv.strategy = "cacheFirst"
  /\ inv.pc = "done"
  /\ inv.from = "network"
  /\ Ok(inv.result)
  /\ inv.req.url \in DOMAIN Content(CACHE_NAME)
  /\ Content(CACHE_NAME)[inv.req.url] = inv.result

\* C15: every CLEAR_CACHE command is answered with one reply: once the
\* deletions have settled one message has been posted on the port, a
\* success after which no namespace exists, or a failure.
C15_ClearCacheRepliesOnce ==
  [][(clear.pc = "delete" /\ clear'.pc = "idle") =>
       /\ replies' = replies + 1
       /\ Keys(names') = {} \/ names' = names]_vars

\* C16: the fetch listener gives every request one outcome, by this
\* precedence: a request that is not a GET is passed through; else a URL
\* holding '/api/' or 'form-data' goes to Network-First, a document request
\* included; else a document request goes to Document; else the request
\* goes to Cache-First.  Routing changes no entry, no existing namespace
\* and no store of the queue.
C16_RouterPrecedence ==
  [][(inv.pc = "idle" /\ inv'.pc # "idle") =>
       /\ inv'.req \in Requests
       /\ inv'.strategy =
            IF inv'.req.method # "GET" THEN "passthrough"
            ELSE IF \/ Includes(inv'.req.url, <<"/", "api", "/">>)
                    \/ Includes(inv'.req.url, <<"form-data">>)
              THEN "networkFirst"
            ELSE IF inv'.req.destination = "document" THEN "document"
            ELSE "cacheFirst"
       /\ inv'.req.method # "GET" =>
            inv'.pc = "done" /\ inv'.netCalls = 0 /\ names' = names /\ objs' = objs
       /\ puts' = puts
       /\ pending' = pending
       /\ completed' = completed
       /\ \A c \in Keys(names) :
            names'[c] = names[c] /\ objs'[names[c]] = objs[names[c]]]_vars

\* A document request whose URL holds 'form-data' is with Network-First.
C16_Witness ==
  /\ inv.strategy = "networkFirst"
  /\ inv.pc = "fetch"
  /\ inv.req.destination = "document"
  /\ Includes(inv.req.url, <<"form-data">>)

\* C17: when a strategy has returned a 2xx response it got from the
\* network, the entry for it is in the namespace of the strategy already:
\* in no state does the caller hold the response while the write is still
\* to come.
C17_WriteBeforeReturn ==
  (inv.pc = "done" /\ inv.from = "network" /\ Ok(inv.result)) =>
    /\ inv.req.url \in DOMAIN Content(StrategyCache(inv.strategy))
    /\ Content(StrategyCache(inv.strategy))[inv.req.url] = inv.result
    /\ \A p \in puts : p.resp # inv.result

\* C18: every entry of every Cache object, and every response handed to
\* cache.put, has a status from 200 to 299; a response with another status
\* goes to no cache.put, and Network-First returns it as the network gave
\* it.
C18_OnlySuccessStored ==
  /\ [](/\ \A id \in DOMAIN objs : \A k \in DOMAIN objs[id] :
              objs[id][k].status \in 200..299
        /\ \A p \in puts : p.resp.status \in 200..299)
  /\ [][(inv.pc = "fetch" /\ inv'.pc = "done" /\ inv'.from = "network"
           /\ inv'.result.status \notin 200..299)
          => /\ inv.strategy # "document"
             /\ inv'.result = Response("network", 500, inv.req.url, HttpDate(now), now)
             /\ puts' = puts
             /\ \A id \in DOMAIN objs' : objs'[id] = objs[id]]_vars

\* Network-First has returned a response of status 500; nothing is waiting
\* to be written and the data namespace is as it was.
C18_Witness ==
  /\ inv.strategy = "networkFirst"
  /\ inv.pc = "done"
  /\ inv.from = "network"
  /\ inv.result.status = 500
  /\ puts = {}
  /\ Content(DATA_CACHE_NAME) = OldData

C20_GetCacheInfoReadOnly ==
  /\ [][info' # info =>
          /\ Keys(names') = Keys(names)
          /\ \A c \in Keys(names) :
               names'[c] = names[c] /\ objs'[names'[c]] = objs[names[c]]]_vars
  /\ [](info.pc = "done" => info.totalCaches = info.listed)

====
